---- MODULE Spec2Model ----
(***************************************************************************)
(* gdwg::graph<N, E> (src/src/gdwg_graph.h): a directed multigraph kept   *)
(* as std::map<N, pair<set<edge_ptr>, set<edge_ptr>>>.  N and E are int.   *)
(*                                                                         *)
(* A std::set<edge_ptr, EdgePtrComparator> is a sequence of edge payloads  *)
(* in comparator order.  Payloads are immutable once constructed and every *)
(* pointer handed to std::set::insert comes fresh from create_edge_ptr, so *)
(* inside one set the address order of two content-equal payloads is their *)
(* order in the sequence: the element at index i is given address i and    *)
(* the fresh pointer an address above them all.                            *)
(***************************************************************************)
EXTENDS Integers, Sequences, FiniteSets, TLC

MaxNode == 3
MaxWeight == 2
MaxEdges == 2

Nodes == 1..MaxNode
Weights == 1..MaxWeight

\* std::optional<E>: std::nullopt is <<>>, a value w is <<w>>
nullopt == <<>>
OptWeights == {nullopt} \cup {<<w>> : w \in Weights}

\* g_ is this->g_ and call the last call made; other is the g_ of a second
\* graph object, aliased the edge payloads that both objects point to, and
\* cursor an iterator of the second object kept by the program
VARIABLES g_, call, other, aliased, cursor

vars == <<g_, call, other, aliased, cursor>>

\* the second object, as far as a program with one graph is concerned
second == <<other, aliased, cursor>>

----------------------------------------------------------------------------
\* edge<N, E>, unweighted_edge<N, E>, weighted_edge<N, E>

unweighted_edge(src, dst) ==
    [src_ |-> src, dst_ |-> dst, weight_ |-> 1, weighted |-> FALSE]

weighted_edge(src, dst, weight) ==
    [src_ |-> src, dst_ |-> dst, weight_ |-> weight, weighted |-> TRUE]

is_weighted(e) == e.weighted

get_weight(e) == IF e.weighted THEN <<e.weight_>> ELSE nullopt

get_nodes(e) == <<e.src_, e.dst_>>

\* edge::operator==
\* an operator== that compares the three stored fields src_, dst_, weight_
edge_eq_by_stored_fields(a, b) ==
    a.src_ = b.src_ /\ a.dst_ = b.dst_ /\ a.weight_ = b.weight_

edge_eq(a, b) ==
    IF a.src_ # b.src_ \/ a.dst_ # b.dst_ THEN FALSE
    ELSE IF is_weighted(a) /\ is_weighted(b) THEN get_weight(a) = get_weight(b)
    ELSE ~is_weighted(a) /\ ~is_weighted(b)

create_edge_ptr(src, dst, weight) ==
    IF weight = nullopt THEN unweighted_edge(src, dst)
    ELSE weighted_edge(src, dst, weight[1])

\* a shared_ptr<edge>: the payload and the address it lives at
ptr(e, addr) == [e |-> e, addr |-> addr]

\* a comparator without step 5: content-equal edges are equivalent
EdgePtrComparator_by_content(a, b) ==
    IF get_nodes(a.e)[1] # get_nodes(b.e)[1]
         THEN get_nodes(a.e)[1] < get_nodes(b.e)[1]
    ELSE IF get_nodes(a.e)[2] # get_nodes(b.e)[2]
         THEN get_nodes(a.e)[2] < get_nodes(b.e)[2]
    ELSE IF is_weighted(a.e) # is_weighted(b.e) THEN ~is_weighted(a.e)
    ELSE IF is_weighted(a.e) /\ is_weighted(b.e) /\ get_weight(a.e) # get_weight(b.e)
         THEN get_weight(a.e)[1] < get_weight(b.e)[1]
    ELSE FALSE

\* graph::EdgePtrComparator::operator()
EdgePtrComparator(a, b) ==
    IF a.addr = b.addr THEN FALSE
    ELSE IF get_nodes(a.e)[1] # get_nodes(b.e)[1]
         THEN get_nodes(a.e)[1] < get_nodes(b.e)[1]
    ELSE IF get_nodes(a.e)[2] # get_nodes(b.e)[2]
         THEN get_nodes(a.e)[2] < get_nodes(b.e)[2]
    ELSE IF is_weighted(a.e) # is_weighted(b.e) THEN ~is_weighted(a.e)
    ELSE IF is_weighted(a.e) /\ is_weighted(b.e) /\ get_weight(a.e) # get_weight(b.e)
         THEN get_weight(a.e)[1] < get_weight(b.e)[1]
    ELSE a.addr < b.addr

----------------------------------------------------------------------------
\* std::set<edge_ptr, EdgePtrComparator>

\* std::set::insert of a fresh pointer: {set, .second}
set_insert(s, e) ==
    LET new == ptr(e, Len(s) + 1)
        at(i) == ptr(s[i], i)
        equiv == \E i \in 1..Len(s) :
                    ~EdgePtrComparator(at(i), new) /\ ~EdgePtrComparator(new, at(i))
        k == Cardinality({i \in 1..Len(s) : EdgePtrComparator(at(i), new)})
    IN  IF equiv THEN [set |-> s, inserted |-> FALSE]
        ELSE [set |-> SubSeq(s, 1, k) \o <<e>> \o SubSeq(s, k + 1, Len(s)),
              inserted |-> TRUE]

\* std::set::erase(iterator)
set_erase(s, i) == SubSeq(s, 1, i - 1) \o SubSeq(s, i + 1, Len(s))

\* s.end(): the position after the last element
set_end(s) == Len(s) + 1

\* std::find_if(s.begin(), s.end(), [&](e) { return *e == *p; })
find_if(s, p) ==
    IF \E i \in 1..Len(s) : edge_eq(s[i], p)
    THEN CHOOSE i \in 1..Len(s) :
            edge_eq(s[i], p) /\ \A j \in 1..(i - 1) : ~edge_eq(s[j], p)
    ELSE set_end(s)

\* graph::edge_ptr_set_pair()
edge_ptr_set_pair == [first |-> <<>>, second |-> <<>>]

----------------------------------------------------------------------------
\* graph<N, E>: g is the map g_

is_node(g, value) == value \in DOMAIN g

map_erase(g, value) == [n \in DOMAIN g \ {value} |-> g[n]]

\* an insert_node that stores an empty record under value in any case
insert_node_overwriting(g, value) ==
    [g |-> [n \in DOMAIN g \cup {value} |-> IF n = value THEN edge_ptr_set_pair ELSE g[n]],
     ret |-> "true"]

insert_node(g, value) ==
    IF is_node(g, value) THEN [g |-> g, ret |-> "false"]
    ELSE [g |-> [n \in DOMAIN g \cup {value} |->
                    IF n = value THEN edge_ptr_set_pair ELSE g[n]],
          ret |-> "true"]

\* existed_edge comparing the pointers, not the payloads: a fresh pointer is
\* never found
existed_edge_by_address(edges_ptr, new_edge_ptr) ==
    \E i \in 1..Len(edges_ptr) :
        ptr(edges_ptr[i], i) = ptr(new_edge_ptr, Len(edges_ptr) + 1)

existed_edge(edges_ptr, new_edge_ptr) ==
    find_if(edges_ptr, new_edge_ptr) # set_end(edges_ptr)

\* g_[src].first.insert(new_edge_ptr).second and
\* g_[dst].second.insert(new_edge_ptr).second: the second insert is made only
\* when the first one inserted; r1 and r2 are what the two inserts give
insert_both(g, src, dst, r1, r2) ==
    IF ~r1.inserted THEN [g |-> [g EXCEPT ![src].first = r1.set], ret |-> "false"]
    ELSE [g |-> [g EXCEPT ![src].first = r1.set, ![dst].second = r2.set],
          ret |-> IF r2.inserted THEN "true" ELSE "false"]

insert_edge(g, src, dst, weight) ==
    IF ~is_node(g, src) \/ ~is_node(g, dst) THEN [g |-> g, ret |-> "throw"]
    ELSE LET new_edge_ptr == create_edge_ptr(src, dst, weight) IN
         IF existed_edge(g[src].first, new_edge_ptr)
               \/ existed_edge(g[dst].second, new_edge_ptr)
         THEN [g |-> g, ret |-> "false"]
         ELSE insert_both(g, src, dst, set_insert(g[src].first, new_edge_ptr),
                          set_insert(g[dst].second, new_edge_ptr))

\* a lambda that files the old edge itself under src and dst instead of
\* inserting a new edge between them
insert_new_edge_moving_pointer(g, edge_ptr, src, dst) ==
    insert_both(g, src, dst, set_insert(g[src].first, edge_ptr),
                set_insert(g[dst].second, edge_ptr))

\* the lambda of move_node_data
insert_new_edge(g, edge_ptr, src, dst) ==
    insert_edge(g, src, dst, IF is_weighted(edge_ptr) THEN get_weight(edge_ptr) ELSE nullopt)

\* the two range-for loops of move_node_data from element i on; r is the graph
\* so far, and an exception of insert_edge leaves the loop with the insertions
\* made so far
RECURSIVE move_outgoing(_, _, _, _)
move_outgoing(r, edges, i, new_node) ==
    IF r.ret = "throw" \/ i > Len(edges) THEN r
    ELSE move_outgoing(insert_new_edge(r.g, edges[i], new_node, get_nodes(edges[i])[2]),
                       edges, i + 1, new_node)

RECURSIVE move_incoming(_, _, _, _)
move_incoming(r, edges, i, new_node) ==
    IF r.ret = "throw" \/ i > Len(edges) THEN r
    ELSE move_incoming(insert_new_edge(r.g, edges[i], get_nodes(edges[i])[1], new_node),
                       edges, i + 1, new_node)

\* for (const auto& edge : g_[old_node].first) ...
handle_outgoing(g, old_node, new_node) ==
    move_outgoing([g |-> g, ret |-> "void"], g[old_node].first, 1, new_node)

\* for (const auto& edge : g_[old_node].second) ...
handle_incoming(r, old_node, new_node) ==
    move_incoming(r, r.g[old_node].second, 1, new_node)

\* r unless it is an exception, and then the exception
returning(r, g, ret) == IF r.ret = "throw" THEN r ELSE [g |-> g, ret |-> ret]

\* g_.erase(old_node)
erase_old_node(r, old_node) == returning(r, map_erase(r.g, old_node), "void")

move_node_data(g, old_node, new_node) ==
    erase_old_node(handle_incoming(handle_outgoing(g, old_node, new_node),
                                   old_node, new_node),
                   old_node)

\* return true, once move_node_data has returned
return_true(r) == returning(r, r.g, "true")

replace_node(g, old_data, new_data) ==
    IF ~is_node(g, old_data) THEN [g |-> g, ret |-> "throw"]
    ELSE IF is_node(g, new_data) THEN [g |-> g, ret |-> "false"]
    ELSE return_true(move_node_data(insert_node(g, new_data).g, old_data, new_data))

\* a merge_replace_node that moves the node data also when old is new
merge_replace_node_onto_itself(g, old_data, new_data) ==
    IF ~is_node(g, old_data) \/ ~is_node(g, new_data) THEN [g |-> g, ret |-> "throw"]
    ELSE move_node_data(g, old_data, new_data)

merge_replace_node(g, old_data, new_data) ==
    IF ~is_node(g, old_data) \/ ~is_node(g, new_data) THEN [g |-> g, ret |-> "throw"]
    ELSE IF old_data = new_data THEN [g |-> g, ret |-> "void"]
    ELSE move_node_data(g, old_data, new_data)

\* erase_node without the two std::erase_if: only the record of value goes
erase_node_own_record(g, value) ==
    IF ~is_node(g, value) THEN [g |-> g, ret |-> "false"]
    ELSE [g |-> map_erase(g, value), ret |-> "true"]

erase_node(g, value) ==
    IF ~is_node(g, value) THEN [g |-> g, ret |-> "false"]
    ELSE LET g1 == [g EXCEPT ![value] = edge_ptr_set_pair]
             keep_out(e) == ~(get_nodes(e)[2] = value)
             keep_in(e) == ~(get_nodes(e)[1] = value)
             g2 == [n \in DOMAIN g1 |->
                      IF n # value
                      THEN [first |-> SelectSeq(g1[n].first, keep_out),
                            second |-> SelectSeq(g1[n].second, keep_in)]
                      ELSE g1[n]]
         IN  [g |-> map_erase(g2, value), ret |-> "true"]

erase_edge(g, src, dst, weight) ==
    IF ~is_node(g, src) \/ ~is_node(g, dst) THEN [g |-> g, ret |-> "throw"]
    ELSE LET temp_edge_ptr == create_edge_ptr(src, dst, weight)
             it == find_if(g[src].first, temp_edge_ptr)
         IN  IF it = set_end(g[src].first) THEN [g |-> g, ret |-> "false"]
             ELSE LET g1 == [g EXCEPT ![src].first = set_erase(g[src].first, it)]
                      in_it == find_if(g1[dst].second, temp_edge_ptr)
                  IN  IF in_it = set_end(g1[dst].second) THEN [g |-> g1, ret |-> "false"]
                      ELSE [g |-> [g1 EXCEPT ![dst].second =
                                        set_erase(g1[dst].second, in_it)],
                            ret |-> "true"]

clear(g) == [n \in {} |-> edge_ptr_set_pair]

\* graph::is_connected
is_connected(g, src, dst) ==
    IF ~is_node(g, src) \/ ~is_node(g, dst) THEN "throw"
    ELSE IF \E i \in 1..Len(g[src].first) : get_nodes(g[src].first[i])[2] = dst
         THEN "true" ELSE "false"

\* an ascending std::vector<N> of the elements of a std::set<N>
RECURSIVE ascending(_)
ascending(S) ==
    IF S = {} THEN <<>>
    ELSE LET least == CHOOSE x \in S : \A y \in S : x <= y
         IN  <<least>> \o ascending(S \ {least})

\* graph::connections
connections(g, src) ==
    IF ~is_node(g, src) THEN [ret |-> "throw", v |-> <<>>]
    ELSE [ret |-> "ok",
          v |-> ascending({get_nodes(g[src].first[i])[2] : i \in 1..Len(g[src].first)})]

\* graph::edges: copies of the outgoing edges of src that lead to dst
edges(g, src, dst) ==
    IF ~is_node(g, src) \/ ~is_node(g, dst) THEN [ret |-> "throw", v |-> <<>>]
    ELSE LET to_dst(e) == get_nodes(e)[2] = dst
             copy(e) == IF is_weighted(e)
                        THEN weighted_edge(get_nodes(e)[1], get_nodes(e)[2], get_weight(e)[1])
                        ELSE unweighted_edge(get_nodes(e)[1], get_nodes(e)[2])
             sel == SelectSeq(g[src].first, to_dst)
         IN  [ret |-> "ok", v |-> [i \in 1..Len(sel) |-> copy(sel[i])]]

----------------------------------------------------------------------------
\* graph::iterator: current_node_ is a key of g_ or g_.end(), current_edge_ a
\* position in that node's outgoing set

\* g_.end(): the position after the largest key
\* unweighted_edge::print_edge and weighted_edge::print_edge, word by word
print_edge(e) ==
    IF is_weighted(e) THEN <<e.src_, "->", e.dst_, "|", "W", "|", e.weight_>>
    ELSE <<e.src_, "->", e.dst_, "|", "U">>

\* the lines operator<< writes for one node: "node (", its edges, ")"
block(node, outgoing_edges) ==
    [open |-> <<node, "(">>,
     lines |-> [i \in 1..Len(outgoing_edges) |-> print_edge(outgoing_edges[i])],
     close |-> ")"]

\* an operator<< that writes nothing for a node without outgoing edges
RECURSIVE dump_skipping_empty(_, _)
dump_skipping_empty(g, ns) ==
    IF ns = <<>> THEN <<>>
    ELSE IF g[Head(ns)].first = <<>> THEN dump_skipping_empty(g, Tail(ns))
    ELSE <<block(Head(ns), g[Head(ns)].first)>> \o dump_skipping_empty(g, Tail(ns))

\* operator<<(os, g): the loop over g.g_, ns the keys still to come
RECURSIVE dump(_, _)
dump(g, ns) ==
    IF ns = <<>> THEN <<>>
    ELSE <<block(Head(ns), g[Head(ns)].first)>> \o dump(g, Tail(ns))

map_end == MaxNode + 1

\* ++ on a map iterator
map_next(g, n) ==
    IF \E m \in DOMAIN g : m > n
    THEN CHOOSE m \in DOMAIN g : m > n /\ \A k \in DOMAIN g : k > n => m <= k
    ELSE map_end

\* g_.begin()
map_begin(g) == map_next(g, 0)

\* iterator(node, edge, g_ptr)
iterator(node, edge) == [current_node_ |-> node, current_edge_ |-> edge]

\* iterator::end: edge_iterator() is the singular position 0
end(g) == iterator(map_end, 0)

RECURSIVE skip_empty(_, _)
skip_empty(g, node_it) ==
    IF node_it # map_end /\ g[node_it].first = <<>>
    THEN skip_empty(g, map_next(g, node_it))
    ELSE node_it

\* iterator::begin
begin(g) ==
    IF DOMAIN g = {} THEN end(g)
    ELSE LET node_it == skip_empty(g, map_begin(g)) IN
         IF node_it = map_end THEN end(g) ELSE iterator(node_it, 1)

\* iterator::operator*
deref(g, it) ==
    LET edge == g[it.current_node_].first[it.current_edge_] IN
    [from |-> get_nodes(edge)[1], to |-> get_nodes(edge)[2],
     weight |-> IF is_weighted(edge) THEN get_weight(edge) ELSE nullopt]

\* the do-while of operator++
RECURSIVE next_node(_, _)
next_node(g, node) ==
    LET n == map_next(g, node) IN
    IF n = map_end THEN end(g)
    ELSE IF g[n].first = <<>> THEN next_node(g, n)
    ELSE iterator(n, 1)

\* iterator::operator++
incr(g, it) ==
    LET e == it.current_edge_ + 1 IN
    IF e = set_end(g[it.current_node_].first) THEN next_node(g, it.current_node_)
    ELSE iterator(it.current_node_, e)

\* iterator::operator== of two cursors of this graph
iterator_eq(g, a, b) ==
    IF a.current_node_ = map_end /\ b.current_node_ = map_end THEN TRUE
    ELSE IF a.current_node_ = map_end \/ b.current_node_ = map_end THEN FALSE
    ELSE IF a.current_node_ # b.current_node_ THEN FALSE
    ELSE LET first == g[a.current_node_].first IN
         IF a.current_edge_ = set_end(first) /\ b.current_edge_ = set_end(first) THEN TRUE
         ELSE IF a.current_edge_ = set_end(first) \/ b.current_edge_ = set_end(first)
              THEN FALSE
         ELSE edge_eq(first[a.current_edge_], first[b.current_edge_])

\* -- on a map iterator that is not g_.begin()
map_prev(g, n) ==
    CHOOSE m \in DOMAIN g : m < n /\ \A k \in DOMAIN g : k < n => k <= m

\* operator-- from end: the while loop that looks for the last non-empty node
RECURSIVE last_edge(_, _)
last_edge(g, node) ==
    IF g[node].first = <<>>
    THEN IF node = map_begin(g) THEN [ret |-> "throw", it |-> end(g)]
         ELSE last_edge(g, map_prev(g, node))
    ELSE [ret |-> "cursor", it |-> iterator(node, Len(g[node].first))]

\* the do-while of operator--
RECURSIVE prev_node(_, _)
prev_node(g, node) ==
    LET n == map_prev(g, node) IN
    IF g[n].first = <<>> /\ n # map_begin(g) THEN prev_node(g, n) ELSE n

\* a -- that steps to the previous node whether or not it has edges
decr_to_previous_node(g, it, ub) ==
    IF it = end(g) THEN
        IF DOMAIN g = {} THEN [ret |-> "throw", it |-> it]
        ELSE [ret |-> "cursor", it |-> iterator(map_prev(g, map_end),
                                                Len(g[map_prev(g, map_end)].first))]
    ELSE IF it.current_node_ = map_begin(g) /\ it.current_edge_ = 1 THEN [ret |-> "throw", it |-> it]
    ELSE IF it.current_edge_ = 1
         THEN [ret |-> "cursor", it |-> iterator(map_prev(g, it.current_node_),
                                                 Len(g[map_prev(g, it.current_node_)].first))]
    ELSE [ret |-> "cursor", it |-> iterator(it.current_node_, it.current_edge_ - 1)]

\* iterator::operator--; std::prev of the end of an empty set is undefined
decr(g, it, ub) ==
    IF iterator_eq(g, it, end(g)) THEN
        IF DOMAIN g = {} THEN [ret |-> "throw", it |-> it]
        ELSE last_edge(g, map_prev(g, map_end))
    ELSE IF it.current_node_ = map_begin(g) /\ it.current_edge_ = 1 THEN [ret |-> "throw", it |-> it]
    ELSE IF it.current_edge_ = 1
         THEN IF g[prev_node(g, it.current_node_)].first = <<>> THEN [ret |-> ub, it |-> it]
              ELSE [ret |-> "cursor", it |-> iterator(prev_node(g, it.current_node_),
                                                      Len(g[prev_node(g, it.current_node_)].first))]
    ELSE [ret |-> "cursor", it |-> iterator(it.current_node_, it.current_edge_ - 1)]

\* find with a lambda that compares the two nodes and not the weight
find_any_weight(g, src, dst, weight) ==
    IF ~is_node(g, src) \/ ~is_node(g, dst) THEN end(g)
    ELSE LET edges_ptr_set == g[src].first
             to_dst == {i \in 1..Len(edges_ptr_set) : get_nodes(edges_ptr_set[i])[2] = dst}
         IN  IF to_dst = {} THEN end(g)
             ELSE iterator(src, CHOOSE i \in to_dst : \A j \in to_dst : i <= j)

\* graph::find
find(g, src, dst, weight) ==
    IF ~is_node(g, src) \/ ~is_node(g, dst) THEN end(g)
    ELSE LET edges_ptr_set == g[src].first
             it == find_if(edges_ptr_set, create_edge_ptr(src, dst, weight))
         IN  IF it = set_end(edges_ptr_set) THEN end(g) ELSE iterator(src, it)

\* the payload a cursor stands on
payload_at(g, it) == g[it.current_node_].first[it.current_edge_]

\* a cursor whose element was erased: it is no position of any set, and a
\* dereference or a comparison of its edge iterator is undefined
invalidated(it) == iterator(it.current_node_, -1)

\* what becomes of the cursor it when the element at position k of the
\* outgoing set of n is erased: std::set::erase invalidates the iterators to
\* the erased element only
after_erase(it, n, k) ==
    IF it.current_node_ # n \/ it.current_edge_ < k THEN it
    ELSE IF it.current_edge_ = k THEN invalidated(it)
    ELSE iterator(n, it.current_edge_ - 1)

\* the element erase_edge(src, dst, weight) looks up in the outgoing set of src
\* when it is given the values of *i
looked_up(g, i) ==
    IF is_node(g, deref(g, i).from)
    THEN iterator(deref(g, i).from, find_if(g[deref(g, i).from].first, payload_at(g, i)))
    ELSE i

\* the cursor it of g after a call that gave g2 and could erase the element at
\* the cursor at
carried(g, g2, it, at) ==
    IF /\ is_node(g, at.current_node_) /\ is_node(g2, at.current_node_)
       /\ Len(g2[at.current_node_].first) < Len(g[at.current_node_].first)
    THEN after_erase(it, at.current_node_, at.current_edge_)
    ELSE it

\* erase_edge(iterator) after ++next: r is what erase_edge(src, dst, weight) gave
erase_edge_return(g, i, next, r) ==
    IF r.ret = "throw" THEN [g |-> r.g, ret |-> "throw", it |-> i]
    ELSE [g |-> r.g, ret |-> "cursor",
          it |-> carried(g, r.g, IF r.ret = "true" THEN next ELSE i, looked_up(g, i))]

\* graph::erase_edge(iterator i)
erase_edge_i(g, i) ==
    IF iterator_eq(g, i, end(g)) THEN [g |-> g, ret |-> "cursor", it |-> end(g)]
    ELSE erase_edge_return(g, i, incr(g, i),
                           erase_edge(g, deref(g, i).from, deref(g, i).to, deref(g, i).weight))

\* the while loop of erase_edge(iterator, iterator): r is what the last
\* erase_edge(i) gave, s the cursor s as the erasures so far left it.  A cursor
\* to an erased element is dereferenced by the next turn of the loop: the
\* behaviour is undefined and ub is what the build makes of it.
RECURSIVE erase_loop(_, _, _)
erase_loop(r, s, ub) ==
    IF r.ret = "throw" THEN r
    ELSE IF r.it = invalidated(r.it) THEN [g |-> r.g, ret |-> ub, it |-> r.it]
    ELSE IF iterator_eq(r.g, r.it, end(r.g)) THEN [g |-> r.g, ret |-> "cursor", it |-> end(r.g)]
    ELSE IF iterator_eq(r.g, r.it, s) THEN r
    ELSE erase_loop(erase_edge_i(r.g, r.it),
                    carried(r.g, erase_edge_i(r.g, r.it).g, s, looked_up(r.g, r.it)), ub)

\* graph::erase_edge(iterator i, iterator s)
erase_edge_i_s(g, i, s, ub) ==
    IF iterator_eq(g, i, s) THEN [g |-> g, ret |-> "cursor", it |-> s]
    ELSE IF iterator_eq(g, i, end(g)) THEN [g |-> g, ret |-> "cursor", it |-> i]
    ELSE erase_loop(erase_edge_i(g, i), carried(g, erase_edge_i(g, i).g, s, looked_up(g, i)), ub)

\* for (auto it = g.begin(); it != g.end(); ++it) visited.push_back(*it);
\* fuel counts the ++ still allowed
RECURSIVE walk(_, _, _)
walk(g, it, fuel) ==
    IF iterator_eq(g, it, end(g)) THEN [reached_end |-> TRUE, visited |-> <<>>]
    ELSE IF fuel = 0 THEN [reached_end |-> FALSE, visited |-> <<>>]
    ELSE LET rest == walk(g, incr(g, it), fuel - 1) IN
         [reached_end |-> rest.reached_end, visited |-> <<deref(g, it)>> \o rest.visited]

----------------------------------------------------------------------------
\* the program: a graph built by a constructor, then any public operation

Range(s) == {s[i] : i \in 1..Len(s)}

\* the stored edge set: every payload held in some outgoing or incoming set
Stored(g) == UNION {Range(g[n].first) \cup Range(g[n].second) : n \in DOMAIN g}

\* A run is a caller that constructs a graph and then calls public operations
\* one after the other.  call records the call that has just returned: the
\* operation, its arguments, what it returned ("throw" for an exception) and
\* the graph it was called on.  Return is the caller going on to its next call.
\* Calls are made on graphs that store at most MaxEdges edges.
Idle(g) == [op |-> "idle", args |-> <<>>, ret |-> "void", before |-> g]

\* the caller is between two calls, on a graph it may call an operation on
Callable ==
    /\ call.op = "idle"
    /\ Cardinality(Stored(g_)) <= MaxEdges

\* the operation op(args) runs to its end with the result r
Returned(op, args, r) ==
    /\ g_' = r.g
    /\ call' = [op |-> op, args |-> args, ret |-> r.ret, before |-> g_]
    /\ UNCHANGED second

\* graph() and graph(std::initializer_list<N>)
Init ==
    \E il \in SUBSET Nodes :
        /\ g_ = [n \in il |-> edge_ptr_set_pair]
        /\ call = [op |-> "graph", args |-> <<il>>, ret |-> "void",
                   before |-> [n \in {} |-> edge_ptr_set_pair]]
        /\ other = [n \in {} |-> edge_ptr_set_pair]
        /\ aliased = {}
        /\ cursor = nullopt

Return ==
    /\ call.op # "idle"
    /\ call' = Idle(g_)
    /\ UNCHANGED <<g_, second>>

InsertNode(value) ==
    /\ Callable
    /\ Returned("insert_node", <<value>>, insert_node(g_, value))

InsertEdge(src, dst, weight) ==
    /\ Callable
    /\ Returned("insert_edge", <<src, dst, weight>>, insert_edge(g_, src, dst, weight))

ReplaceNode(old_data, new_data) ==
    /\ Callable
    /\ Returned("replace_node", <<old_data, new_data>>,
                replace_node(g_, old_data, new_data))

MergeReplaceNode(old_data, new_data) ==
    /\ Callable
    /\ Returned("merge_replace_node", <<old_data, new_data>>,
                merge_replace_node(g_, old_data, new_data))

EraseNode(value) ==
    /\ Callable
    /\ Returned("erase_node", <<value>>, erase_node(g_, value))

EraseEdge(src, dst, weight) ==
    /\ Callable
    /\ Returned("erase_edge", <<src, dst, weight>>, erase_edge(g_, src, dst, weight))

Clear ==
    /\ Callable
    /\ Returned("clear", <<>>, [g |-> clear(g_), ret |-> "void"])

Find(src, dst, weight) ==
    /\ Callable
    /\ Returned("find", <<src, dst, weight>>,
                [g |-> g_, ret |-> find(g_, src, dst, weight)])

\* the cursors of g that stand on an edge, and end()
Cursors(g) ==
    UNION {{iterator(n, k) : k \in 1..Len(g[n].first)} : n \in DOMAIN g} \cup {end(g)}

\* s is i or comes after i in the traversal
ReachableFrom(i, s) ==
    \/ i.current_node_ < s.current_node_
    \/ i.current_node_ = s.current_node_ /\ i.current_edge_ <= s.current_edge_

\* what a build may make of undefined behaviour in a loop: it stops the
\* program or it never leaves the loop
Undefined == {"crash", "hang"}

\* an operation that returns a cursor runs to its end with the result r
ReturnedCursor(op, args, r) ==
    /\ g_' = r.g
    /\ call' = [op |-> op, args |-> args, ret |-> r.ret, before |-> g_, it |-> r.it]
    /\ UNCHANGED second

EraseEdgeI(i) ==
    /\ Callable
    /\ ReturnedCursor("erase_edge_i", <<i>>, erase_edge_i(g_, i))

EraseEdgeIS(i, s, ub) ==
    /\ Callable
    /\ ReachableFrom(i, s)
    /\ ReturnedCursor("erase_edge_i_s", <<i, s>>, erase_edge_i_s(g_, i, s, ub))

Decrement(i, ub) ==
    /\ Callable
    /\ ReturnedCursor("decrement", <<i>>, [g |-> g_, ret |-> decr(g_, i, ub).ret, it |-> decr(g_, i, ub).it])

\* os << g
Dump ==
    /\ Callable
    /\ g_' = g_
    /\ call' = [op |-> "operator<<", args |-> <<>>, ret |-> "os", before |-> g_,
                os |-> dump(g_, ascending(DOMAIN g_))]
    /\ UNCHANGED second

Next ==
    \/ Return
    \/ Dump
    \/ \E value \in Nodes : InsertNode(value)
    \/ \E src \in Nodes, dst \in Nodes, weight \in OptWeights : InsertEdge(src, dst, weight)
    \/ \E old_data \in Nodes, new_data \in Nodes : ReplaceNode(old_data, new_data)
    \/ \E old_data \in Nodes, new_data \in Nodes : MergeReplaceNode(old_data, new_data)
    \/ \E value \in Nodes : EraseNode(value)
    \/ \E src \in Nodes, dst \in Nodes, weight \in OptWeights : EraseEdge(src, dst, weight)
    \/ Clear
    \/ \E src \in Nodes, dst \in Nodes, weight \in OptWeights : Find(src, dst, weight)
    \/ \E i \in Cursors(g_) : EraseEdgeI(i)
    \/ \E i \in Cursors(g_), s \in Cursors(g_), ub \in Undefined : EraseEdgeIS(i, s, ub)
    \/ \E i \in Cursors(g_), ub \in Undefined : Decrement(i, ub)

Spec == Init /\ [][Next]_vars

----------------------------------------------------------------------------
\* vocabulary of the properties

OutSet(g, n) == Range(g[n].first)
InSet(g, n) == Range(g[n].second)

\* number of entries in the outgoing sets
OutCount(g) ==
    Cardinality(UNION {{<<n, i>> : i \in 1..Len(g[n].first)} : n \in DOMAIN g})

\* the begin()-to-end() traversal
Traversal(g) == walk(g, begin(g), OutCount(g) + 1)

\* an edge payload as the (from, to, weight) value a cursor yields
Value(e) == [from |-> e.src_, to |-> e.dst_,
             weight |-> IF e.weighted THEN <<e.weight_>> ELSE nullopt]

\* an edge with every endpoint equal to old rewritten to new
Rename(e, old, new) ==
    [e EXCEPT !.src_ = IF @ = old THEN new ELSE @,
              !.dst_ = IF @ = old THEN new ELSE @]

RenameAll(E, old, new) == {Rename(e, old, new) : e \in E}

\* g holds exactly the edges E: each in the outgoing set of its source and the
\* incoming set of its destination, nothing else, and the traversal yields them
HoldsExactly(g, E) ==
    /\ \A n \in DOMAIN g :
          /\ OutSet(g, n) = {e \in E : e.src_ = n}
          /\ InSet(g, n) = {e \in E : e.dst_ = n}
    /\ Traversal(g).reached_end
    /\ Range(Traversal(g).visited) = {Value(e) : e \in E}

----------------------------------------------------------------------------
\* C1: replace_node(old, new) with old a node and new not a node returns true,
\* makes new a node and old not a node, and leaves exactly the previous stored
\* edges with old rewritten to new, in every outgoing and incoming set and in
\* the traversal; no stored edge keeps old as an endpoint.
C1_ReplaceNodeRewritesEdges ==
    (call.op = "replace_node" /\ is_node(call.before, call.args[1])
        /\ ~is_node(call.before, call.args[2]))
    => LET old == call.args[1]
           new == call.args[2]
       IN  /\ call.ret = "true"
           /\ is_node(g_, new) /\ ~is_node(g_, old)
           /\ HoldsExactly(g_, RenameAll(Stored(call.before), old, new))
           /\ \A e \in Stored(g_) : e.src_ # old /\ e.dst_ # old

\* C2: merge_replace_node(old, new) with distinct nodes old and new removes
\* old and leaves exactly the image of the previous stored edges under the
\* renaming of old to new, edges that become equal collapsed to one.
C2_MergeReplaceRewritesEdges ==
    (call.op = "merge_replace_node" /\ is_node(call.before, call.args[1])
        /\ is_node(call.before, call.args[2]) /\ call.args[1] # call.args[2])
    => LET old == call.args[1]
           new == call.args[2]
       IN  /\ DOMAIN g_ = DOMAIN call.before \ {old}
           /\ HoldsExactly(g_, RenameAll(Stored(call.before), old, new))

\* C3: every edge held in an outgoing or incoming set has its source and its
\* destination among the nodes of the graph.
C3_EndpointsAreNodes ==
    \A e \in Stored(g_) : is_node(g_, e.src_) /\ is_node(g_, e.dst_)

\* C4: an edge is in the outgoing set of its source exactly when it is in the
\* incoming set of its destination.
C4_OutgoingIffIncoming ==
    \A e \in Stored(g_) :
        (is_node(g_, e.src_) /\ e \in OutSet(g_, e.src_))
        <=> (is_node(g_, e.dst_) /\ e \in InSet(g_, e.dst_))

\* the stored edges that lead from src to dst
StoredBetween(g, src, dst) == {e \in Stored(g) : e.src_ = src /\ e.dst_ = dst}

\* unweighted first, then strictly ascending weight; hence at most one
\* unweighted edge and pairwise distinct weights
CanonicalWeights(r) ==
    /\ Cardinality({i \in 1..Len(r) : ~r[i].weighted}) <= 1
    /\ \A i, j \in 1..Len(r) :
          (i # j /\ r[i].weighted /\ r[j].weighted) => r[i].weight_ # r[j].weight_
    /\ \A i, j \in 1..Len(r) :
          (i < j /\ r[i].weighted) => (r[j].weighted /\ r[i].weight_ < r[j].weight_)

\* C5: for all nodes src and dst, edges(src, dst) returns exactly the stored
\* edges from src to dst, at most one of them unweighted, the weights pairwise
\* distinct, the unweighted edge first and then ascending weight.
C5_EdgesReturnsStoredInOrder ==
    \A src \in DOMAIN g_, dst \in DOMAIN g_ :
        LET r == edges(g_, src, dst) IN
        /\ r.ret = "ok"
        /\ Range(r.v) = StoredBetween(g_, src, dst)
        /\ CanonicalWeights(r.v)

\* edges(s, d) for every pair of nodes, ascending in s and then in d
RECURSIVE ConcatEdges(_, _, _)
ConcatEdges(g, s, d) ==
    IF s > MaxNode THEN <<>>
    ELSE IF d > MaxNode THEN ConcatEdges(g, s + 1, 1)
    ELSE (IF is_node(g, s) /\ is_node(g, d) THEN edges(g, s, d).v ELSE <<>>)
         \o ConcatEdges(g, s, d + 1)

\* strict canonical order of two cursor values: source, destination,
\* unweighted before weighted, weight
ValueBefore(a, b) ==
    \/ a.from < b.from
    \/ a.from = b.from /\ a.to < b.to
    \/ a.from = b.from /\ a.to = b.to /\ a.weight = nullopt /\ b.weight # nullopt
    \/ a.from = b.from /\ a.to = b.to /\ a.weight # nullopt /\ b.weight # nullopt
          /\ a.weight[1] < b.weight[1]

\* C6: stepping from begin() with ++ reaches end(), and the values met are the
\* concatenation of edges(s, d) over the node pairs, strictly ascending in
\* canonical order.
C6_TraversalIsConcatenationOfEdges ==
    LET t == Traversal(g_)
        c == ConcatEdges(g_, 1, 1)
    IN  /\ t.reached_end
        /\ t.visited = [i \in 1..Len(c) |-> Value(c[i])]
        /\ \A i \in 1..(Len(t.visited) - 1) : ValueBefore(t.visited[i], t.visited[i + 1])

\* the edge (src, dst, weight) as a payload
Payload(src, dst, weight) ==
    [src_ |-> src, dst_ |-> dst, weighted |-> weight # nullopt,
     weight_ |-> IF weight = nullopt THEN 1 ELSE weight[1]]

\* an edge equal to (src, dst, weight) is stored
EqualStored(g, src, dst, weight) ==
    \E x \in Stored(g) :
        /\ x.src_ = src /\ x.dst_ = dst
        /\ x.weighted = (weight # nullopt)
        /\ x.weighted => x.weight_ = weight[1]

\* g2 is g1 with the one edge e added to the outgoing set of src and the
\* incoming set of dst, and nothing else changed
AddsOnly(g1, g2, src, dst, e) ==
    /\ DOMAIN g2 = DOMAIN g1
    /\ \A n \in DOMAIN g1 :
          /\ IF n = src
             THEN /\ e \notin OutSet(g1, n)
                  /\ \E i \in 1..Len(g2[n].first) :
                        g2[n].first[i] = e /\ set_erase(g2[n].first, i) = g1[n].first
             ELSE g2[n].first = g1[n].first
          /\ IF n = dst
             THEN /\ e \notin InSet(g1, n)
                  /\ \E i \in 1..Len(g2[n].second) :
                        g2[n].second[i] = e /\ set_erase(g2[n].second, i) = g1[n].second
             ELSE g2[n].second = g1[n].second

\* C7: with src and dst nodes, insert_edge(src, dst, w) returns false if an
\* equal edge is stored and otherwise returns true and adds exactly that edge
\* to the outgoing set of src and the incoming set of dst, whatever other
\* weights the pair already has and also when src = dst.
C7_InsertEdgeAddsOneEdge ==
    (call.op = "insert_edge" /\ is_node(call.before, call.args[1])
        /\ is_node(call.before, call.args[2]))
    => LET src == call.args[1]
           dst == call.args[2]
           w == call.args[3]
       IN  IF EqualStored(call.before, src, dst, w) THEN call.ret = "false"
           ELSE /\ call.ret = "true"
                /\ AddsOnly(call.before, g_, src, dst, Payload(src, dst, w))

\* insert_edge returned true for a reflexive edge whose pair already had an
\* unweighted and a weighted edge
C7_InsertedBesideOtherWeights ==
    /\ call.op = "insert_edge" /\ call.ret = "true"
    /\ call.args[1] = call.args[2]
    /\ \E a, b \in StoredBetween(call.before, call.args[1], call.args[2]) :
          ~a.weighted /\ b.weighted
    /\ Len(g_[call.args[1]].first) = 3 /\ Len(g_[call.args[1]].second) = 3

\* find(src, dst, w) yields a cursor on the edge
Found(g, src, dst, w) ==
    /\ ~iterator_eq(g, find(g, src, dst, w), end(g))
    /\ deref(g, find(g, src, dst, w)) = [from |-> src, to |-> dst, weight |-> w]

\* the call that has just returned is one that removes the edge (src, dst, w)
\* the payloads under the cursors from i up to s, s left out
RECURSIVE RangePayloads(_, _, _)
RangePayloads(g, i, s) ==
    IF i = s \/ i = end(g) THEN {}
    ELSE {payload_at(g, i)} \cup RangePayloads(g, incr(g, i), s)

RemovalOf(src, dst, w) ==
    \/ call.op = "erase_edge" /\ call.args = <<src, dst, w>>
    \/ /\ call.op = "erase_edge_i"
       /\ call.args[1] # end(call.before)
       /\ deref(call.before, call.args[1]) = [from |-> src, to |-> dst, weight |-> w]
    \/ /\ call.op = "erase_edge_i_s"
       /\ \/ call.ret \in Undefined
          \/ \E e \in RangePayloads(call.before, call.args[1], call.args[2]) :
                Value(e) = [from |-> src, to |-> dst, weight |-> w]
    \/ call.op = "erase_node" /\ call.args[1] \in {src, dst}
    \/ call.op \in {"replace_node", "merge_replace_node"} /\ call.args[1] \in {src, dst}
    \/ call.op = "clear"

\* C8: find(src, dst, w) yields a cursor on (src, dst, w) once insert_edge has
\* put the edge in and until an operation removes it; it yields end() after
\* erase_edge removed the edge, when no such edge is stored and when src or
\* dst is not a node; find raises nothing and changes nothing.
C8_FindRoundTrip ==
    /\ \A src \in Nodes, dst \in Nodes, w \in OptWeights :
          /\ ~iterator_eq(g_, find(g_, src, dst, w), end(g_)) => Found(g_, src, dst, w)
          /\ (~is_node(g_, src) \/ ~is_node(g_, dst) \/ ~EqualStored(g_, src, dst, w))
                => iterator_eq(g_, find(g_, src, dst, w), end(g_))
          /\ (Found(call.before, src, dst, w) /\ ~RemovalOf(src, dst, w))
                => Found(g_, src, dst, w)
    /\ (call.op = "insert_edge" /\ call.ret = "true")
          => Found(g_, call.args[1], call.args[2], call.args[3])
    /\ (call.op = "erase_edge" /\ call.ret = "true")
          => iterator_eq(g_, find(g_, call.args[1], call.args[2], call.args[3]), end(g_))
    /\ call.op = "find"
          => /\ g_ = call.before
             /\ call.ret = find(call.before, call.args[1], call.args[2], call.args[3])
             /\ \/ iterator_eq(g_, call.ret, end(g_))
                \/ /\ is_node(g_, call.ret.current_node_)
                   /\ call.ret.current_edge_ \in 1..Len(g_[call.ret.current_node_].first)

\* find returned a cursor on the edge asked for, which is not the first edge of
\* its source
C8_FoundBehindOtherEdge ==
    /\ call.op = "find"
    /\ ~iterator_eq(g_, call.ret, end(g_))
    /\ call.ret.current_edge_ > 1
    /\ deref(g_, call.ret)
          = [from |-> call.args[1], to |-> call.args[2], weight |-> call.args[3]]

\* the edges of E that do not touch v
NotIncident(E, v) == {e \in E : e.src_ # v /\ e.dst_ # v}

\* C9: erase_node(v) returns false and changes nothing when v is not a node;
\* otherwise it returns true, v stops being a node, no edge with v as source
\* or destination is left in any set, and the other nodes and the edges not
\* incident to v stay as they were.
C9_EraseNodeRemovesIncidentEdges ==
    call.op = "erase_node"
    => LET v == call.args[1] IN
       IF ~is_node(call.before, v) THEN call.ret = "false" /\ g_ = call.before
       ELSE /\ call.ret = "true"
            /\ DOMAIN g_ = DOMAIN call.before \ {v}
            /\ \A e \in Stored(g_) : e.src_ # v /\ e.dst_ # v
            /\ \A n \in DOMAIN g_ :
                  /\ OutSet(g_, n) = NotIncident(OutSet(call.before, n), v)
                  /\ InSet(g_, n) = NotIncident(InSet(call.before, n), v)
                  /\ Len(g_[n].first) = Cardinality(OutSet(g_, n))
                  /\ Len(g_[n].second) = Cardinality(InSet(g_, n))

\* erase_node returned true and took an edge out of another node's outgoing set
\* and an edge out of another node's incoming set
C9_ErasedEdgesOfOtherNodes ==
    /\ call.op = "erase_node" /\ call.ret = "true"
    /\ \E n \in DOMAIN g_ : OutSet(g_, n) # OutSet(call.before, n)
    /\ \E n \in DOMAIN g_ : InSet(g_, n) # InSet(call.before, n)

\* g2 is g1 with the one edge e taken out of the outgoing set of src and the
\* incoming set of dst, and nothing else changed
RemovesOnly(g1, g2, src, dst, e) == AddsOnly(g2, g1, src, dst, e)

\* C10: with src and dst nodes, erase_edge(src, dst, w) returns true exactly
\* when an equal edge was stored, and then takes that one edge out of the
\* outgoing set of src and the incoming set of dst and changes nothing else.
C10_EraseEdgeRemovesOneEdge ==
    (call.op = "erase_edge" /\ is_node(call.before, call.args[1])
        /\ is_node(call.before, call.args[2]))
    => LET src == call.args[1]
           dst == call.args[2]
           w == call.args[3]
       IN  /\ (call.ret = "true") <=> EqualStored(call.before, src, dst, w)
           /\ (call.ret = "true")
                 => RemovesOnly(call.before, g_, src, dst, Payload(src, dst, w))

\* C11: erase_edge(i) with i on a stored edge removes exactly that edge and
\* returns the cursor of the edge that followed it in the traversal, end() if
\* none followed and the new begin() if i was begin(); erase_edge(end())
\* returns end() and changes nothing.
C11_EraseEdgeByCursor ==
    call.op = "erase_edge_i"
    => LET i == call.args[1]
           b == call.before
       IN  IF i = end(b) THEN call.ret = "cursor" /\ call.it = end(g_) /\ g_ = b
           ELSE /\ call.ret = "cursor"
                /\ RemovesOnly(b, g_, deref(b, i).from, deref(b, i).to, payload_at(b, i))
                /\ call.it \in Cursors(g_)
                /\ IF incr(b, i) = end(b) THEN call.it = end(g_)
                   ELSE /\ call.it # end(g_)
                        /\ deref(g_, call.it) = deref(b, incr(b, i))
                /\ i = begin(b) => iterator_eq(g_, call.it, begin(g_))

\* the sequence q without the payloads of E
Without(q, E) == LET Kept(e) == e \notin E IN SelectSeq(q, Kept)

\* C12: erase_edge(i, s) with s reachable from i by ++ removes exactly the
\* edges under the cursors of [i, s), leaves every other edge in place and
\* returns a cursor equal to s, end() when s is end().
C12_EraseEdgeRange ==
    call.op = "erase_edge_i_s"
    => LET i == call.args[1]
           s == call.args[2]
           b == call.before
       IN  /\ call.ret = "cursor"
           /\ DOMAIN g_ = DOMAIN b
           /\ \A n \in DOMAIN b :
                 /\ g_[n].first = Without(b[n].first, RangePayloads(b, i, s))
                 /\ g_[n].second = Without(b[n].second, RangePayloads(b, i, s))
           /\ IF s = end(b) THEN call.it = end(g_)
              ELSE /\ call.it \in Cursors(g_) \ {end(g_)}
                   /\ deref(g_, call.it) = deref(b, s)

\* C14: insert_edge, replace_node, merge_replace_node, erase_edge(src, dst,
\* w), is_connected, edges and connections raise an error exactly when a
\* node argument they need is not a node (replace_node: old; connections:
\* src; the others: both arguments), and a call that raises leaves the nodes
\* and every edge set as they were.
C14_ErrorsOnlyForMissingNodes ==
    /\ call.op \in {"insert_edge", "erase_edge", "merge_replace_node"}
          => (call.ret = "throw")
                <=> (~is_node(call.before, call.args[1]) \/ ~is_node(call.before, call.args[2]))
    /\ call.op = "replace_node"
          => (call.ret = "throw") <=> ~is_node(call.before, call.args[1])
    /\ call.op \in {"insert_edge", "erase_edge", "merge_replace_node", "replace_node"}
          => (call.ret = "throw" => g_ = call.before)
    /\ \A src \in Nodes, dst \in Nodes :
          /\ (is_connected(g_, src, dst) = "throw") <=> (~is_node(g_, src) \/ ~is_node(g_, dst))
          /\ (edges(g_, src, dst).ret = "throw") <=> (~is_node(g_, src) \/ ~is_node(g_, dst))
          /\ (connections(g_, src).ret = "throw") <=> ~is_node(g_, src)

\* C15: when insert_node, insert_edge, erase_node or erase_edge(src, dst, w)
\* returns false, the nodes and every outgoing and incoming set are as they
\* were before the call.
C15_FalseMeansUnchanged ==
    (call.op \in {"insert_node", "insert_edge", "erase_node", "erase_edge"}
        /\ call.ret = "false")
    => g_ = call.before

\* the sequence q back to front
Reverse(q) == [k \in 1..Len(q) |-> q[Len(q) + 1 - k]]

\* the cursor of the last edge of the last node with a non-empty outgoing set
LastCursor(g) ==
    LET n == CHOOSE m \in DOMAIN g :
                 /\ g[m].first # <<>>
                 /\ \A k \in DOMAIN g : g[k].first # <<>> => k <= m
    IN  iterator(n, Len(g[n].first))

\* the values met by repeated -- from the result r of a -- until begin()
RECURSIVE BackFrom(_, _, _, _)
BackFrom(g, r, fuel, ub) ==
    IF fuel = 0 \/ r.ret # "cursor" THEN [at_begin |-> FALSE, visited |-> <<>>]
    ELSE IF r.it = begin(g) THEN [at_begin |-> TRUE, visited |-> <<deref(g, r.it)>>]
    ELSE [at_begin |-> BackFrom(g, decr(g, r.it, ub), fuel - 1, ub).at_begin,
          visited |-> <<deref(g, r.it)>> \o BackFrom(g, decr(g, r.it, ub), fuel - 1, ub).visited]

BackwardTraversal(g, ub) == BackFrom(g, decr(g, end(g), ub), OutCount(g) + 1, ub)

\* C20: in a graph whose traversal is not empty, -- on end() gives the last
\* edge of the last node with a non-empty outgoing set, repeated -- meets the
\* edges in the reverse of the forward order and arrives at begin(), and
\* --(++c) is c for every cursor c that is not end(); nodes without outgoing
\* edges are skipped in both directions.
C20_BackwardSymmetric ==
    begin(g_) # end(g_)
    => \A ub \in Undefined :
          /\ decr(g_, end(g_), ub) = [ret |-> "cursor", it |-> LastCursor(g_)]
          /\ BackwardTraversal(g_, ub).at_begin
          /\ BackwardTraversal(g_, ub).visited = Reverse(Traversal(g_).visited)
          /\ \A c \in Cursors(g_) \ {end(g_)} :
                decr(g_, incr(g_, c), ub) = [ret |-> "cursor", it |-> c]

\* a -- has stepped from one node's first edge back over a node without
\* outgoing edges
C20_SteppedBackOverEmptyNode ==
    /\ call.op = "decrement"
    /\ call.ret = "cursor"
    /\ call.args[1] # end(g_)
    /\ \E n \in DOMAIN g_ :
          /\ g_[n].first = <<>>
          /\ call.it.current_node_ < n
          /\ n < call.args[1].current_node_

----------------------------------------------------------------------------
\* two graph objects: copy, move, operator== and a cursor kept across a move

MaxPairNode == 2
MaxPairWeight == 0
MaxPairEdges == 1

PairNodes == 1..MaxPairNode
PairOptWeights == {nullopt} \cup {<<w>> : w \in 1..MaxPairWeight}

\* graph::nodes
nodes(g) == ascending(DOMAIN g)

\* graph(graph const&) and operator=(graph const&): std::move of a const map
\* copies the map and its sets, and with them every shared_ptr by address
copy(o) == [g |-> o, aliased |-> Stored(o)]

\* a move that leaves the source as it was
exchange_keeping_source(o) == [g |-> o, other |-> o]

\* g_ = std::exchange(other.g_, {})
exchange(o) == [g |-> o, other |-> [n \in {} |-> edge_ptr_set_pair]]

\* the while loop of graph::operator== on two distinct objects: other_it !=
\* end() compares other_it with the end of *this, which it never equals, so
\* the loop runs on until g_it is at end() and dereferences other_it even
\* when it stands at other.end()
RECURSIVE equal_loop(_, _, _, _, _)
equal_loop(g, o, g_it, other_it, ub) ==
    IF iterator_eq(g, g_it, end(g))
    THEN IF iterator_eq(o, other_it, end(o)) THEN "true" ELSE "false"
    ELSE IF iterator_eq(o, other_it, end(o)) THEN ub
    ELSE IF deref(g, g_it) # deref(o, other_it) THEN "false"
    ELSE equal_loop(g, o, incr(g, g_it), incr(o, other_it), ub)

\* graph::operator==
graph_eq(g, o, ub) ==
    IF Cardinality(DOMAIN g) # Cardinality(DOMAIN o) THEN "false"
    ELSE IF nodes(g) # nodes(o) THEN "false"
    ELSE IF iterator_eq(g, begin(g), end(g)) /\ iterator_eq(o, begin(o), end(o)) THEN "true"
    ELSE IF iterator_eq(g, begin(g), end(g)) \/ iterator_eq(o, begin(o), end(o)) THEN "false"
    ELSE equal_loop(g, o, begin(g), begin(o), ub)

\* an iterator: graph_ptr_ names the object it was made for, elements the
\* object whose map its current_node_ and current_edge_ point into
iterator_of(it, graph_ptr, elements) ==
    [it |-> it, graph_ptr_ |-> graph_ptr, elements |-> elements]

\* iterator::operator== of two iterators whatever their objects
cursor_eq(gs, a, b) ==
    IF a.graph_ptr_ # b.graph_ptr_ THEN FALSE
    ELSE IF /\ a.elements = a.graph_ptr_ /\ a.it.current_node_ = map_end
            /\ b.elements = b.graph_ptr_ /\ b.it.current_node_ = map_end THEN TRUE
    ELSE IF \/ a.elements = a.graph_ptr_ /\ a.it.current_node_ = map_end
            \/ b.elements = b.graph_ptr_ /\ b.it.current_node_ = map_end THEN FALSE
    ELSE IF \/ a.it.current_node_ # b.it.current_node_
            \/ gs[a.elements][a.it.current_node_] # gs[b.elements][b.it.current_node_] THEN FALSE
    ELSE a.it.current_edge_ = b.it.current_edge_

\* iterator(): value-initialized map and set iterators, graph_ptr_(nullptr)
value_initialized == iterator_of(iterator(0, 0), "nullptr", "nullptr")

\* iterator::operator== as a call: past the first test two iterators have
\* the same graph_ptr_, and graph_ptr_->g_ is read whether or not it is null
iterator_equals(gs, a, b, ub) ==
    IF a.graph_ptr_ # b.graph_ptr_ THEN "false"
    ELSE IF a.graph_ptr_ = "nullptr" THEN ub
    ELSE IF cursor_eq(gs, a, b) THEN "true"
    ELSE "false"

\* the do-while of operator++: the node after the last one is the end of the
\* map the elements are in, and only graph_ptr_'s own end stops the loop
RECURSIVE cursor_next_node(_, _, _, _)
cursor_next_node(m, node, own, ub) ==
    IF map_next(m, node) = map_end
    THEN IF own THEN [ret |-> "cursor", it |-> end(m)]
         ELSE [ret |-> ub, it |-> iterator(map_end, 0)]
    ELSE IF m[map_next(m, node)].first = <<>> THEN cursor_next_node(m, map_next(m, node), own, ub)
    ELSE [ret |-> "cursor", it |-> iterator(map_next(m, node), 1)]

\* iterator::operator++ of an iterator whatever its object; ++ on end()
\* increments a singular set iterator
cursor_incr(gs, c, ub) ==
    IF c.it.current_node_ = map_end THEN [ret |-> ub, it |-> c.it]
    ELSE IF c.it.current_edge_ + 1 = set_end(gs[c.elements][c.it.current_node_].first)
    THEN cursor_next_node(gs[c.elements], c.it.current_node_, c.elements = c.graph_ptr_, ub)
    ELSE [ret |-> "cursor", it |-> iterator(c.it.current_node_, c.it.current_edge_ + 1)]

\* the modifiers of graph, each with the result of calling it on g
modifiers(g) ==
    {[op |-> "insert_node", args |-> <<v>>, r |-> insert_node(g, v)] : v \in PairNodes}
    \cup {[op |-> "insert_edge", args |-> <<src, dst, w>>, r |-> insert_edge(g, src, dst, w)] :
             src \in PairNodes, dst \in PairNodes, w \in PairOptWeights}
    \cup {[op |-> "replace_node", args |-> <<o, n>>, r |-> replace_node(g, o, n)] :
             o \in PairNodes, n \in PairNodes}
    \cup {[op |-> "merge_replace_node", args |-> <<o, n>>, r |-> merge_replace_node(g, o, n)] :
             o \in PairNodes, n \in PairNodes}
    \cup {[op |-> "erase_node", args |-> <<v>>, r |-> erase_node(g, v)] : v \in PairNodes}
    \cup {[op |-> "erase_edge", args |-> <<src, dst, w>>, r |-> erase_edge(g, src, dst, w)] :
             src \in PairNodes, dst \in PairNodes, w \in PairOptWeights}
    \cup {[op |-> "clear", args |-> <<>>, r |-> [g |-> clear(g), ret |-> "void"]]}

ModifierOps ==
    {"insert_node", "insert_edge", "replace_node", "merge_replace_node", "erase_node",
     "erase_edge", "clear"}

\* a replace_node that renames the source of the payloads it finds
written_by_change_src(m, e) ==
    IF m.op = "replace_node" /\ m.r.ret = "true" /\ e.src_ = m.args[1]
    THEN [e EXCEPT !.src_ = m.args[2]]
    ELSE e

\* the contents of payload e after modifier call m: edge::change_src and
\* edge::change_dst are never called, a payload is never written to
written(m, e) == e

\* a set of g after modifier call m on the other object
set_seen_through(q, shared, m) ==
    [k \in 1..Len(q) |-> IF q[k] \in shared THEN written(m, q[k]) ELSE q[k]]

\* the map g after modifier call m on the object it shares payloads with
seen_through(g, shared, m) ==
    [n \in DOMAIN g |-> [first |-> set_seen_through(g[n].first, shared, m),
                         second |-> set_seen_through(g[n].second, shared, m)]]

\* the cursor after *this was assigned to: an iterator into the map *this
\* gave up is dropped, one into a map that was moved in points into *this
after_assignment(c, moved) ==
    IF c = nullopt THEN nullopt
    ELSE IF c.elements = "this" THEN nullopt
    ELSE IF moved THEN [c EXCEPT !.elements = "this"]
    ELSE c

PairCallable == call.op = "idle"

\* a modifier is called on a graph that holds at most MaxPairEdges edges
Growable(g) == Cardinality(Stored(g)) <= MaxPairEdges

PairReturned(op, args, ret, on) ==
    call' = [op |-> op, args |-> args, ret |-> ret, before |-> g_, other_before |-> other,
             aliased_before |-> aliased, on |-> on]

PairInit ==
    \E il \in SUBSET PairNodes, il2 \in SUBSET PairNodes :
        /\ g_ = [n \in il |-> edge_ptr_set_pair]
        /\ other = [n \in il2 |-> edge_ptr_set_pair]
        /\ aliased = {}
        /\ cursor = nullopt
        /\ call = Idle(g_)

\* a modifier called on *this; the program lets go of its cursor
MutateThis(m) ==
    /\ PairCallable
    /\ Growable(g_)
    /\ g_' = m.r.g
    /\ other' = seen_through(other, aliased, m)
    /\ aliased' = (aliased \cap Stored(g_')) \cap Stored(other')
    /\ cursor' = nullopt
    /\ PairReturned(m.op, m.args, m.r.ret, "this")

\* a modifier called on the second object
MutateOther(m) ==
    /\ PairCallable
    /\ Growable(other)
    /\ other' = m.r.g
    /\ g_' = seen_through(g_, aliased, m)
    /\ aliased' = (aliased \cap Stored(g_')) \cap Stored(other')
    /\ cursor' = nullopt
    /\ PairReturned(m.op, m.args, m.r.ret, "other")

\* graph(graph const& other)
CopyConstruct ==
    /\ PairCallable
    /\ g_' = copy(other).g
    /\ aliased' = copy(other).aliased
    /\ cursor' = after_assignment(cursor, FALSE)
    /\ UNCHANGED other
    /\ PairReturned("copy_construct", <<>>, "void", "this")

\* operator=(graph const& other)
CopyAssign ==
    /\ PairCallable
    /\ g_' = copy(other).g
    /\ aliased' = copy(other).aliased
    /\ cursor' = after_assignment(cursor, FALSE)
    /\ UNCHANGED other
    /\ PairReturned("copy_assign", <<>>, "void", "this")

\* graph(graph&& other)
MoveConstruct ==
    /\ PairCallable
    /\ g_' = exchange(other).g
    /\ other' = exchange(other).other
    /\ aliased' = {}
    /\ cursor' = after_assignment(cursor, TRUE)
    /\ PairReturned("move_construct", <<>>, "void", "this")

\* operator=(graph&& other) with this # &other
MoveAssign ==
    /\ PairCallable
    /\ g_' = exchange(other).g
    /\ other' = exchange(other).other
    /\ aliased' = {}
    /\ cursor' = after_assignment(cursor, TRUE)
    /\ PairReturned("move_assign", <<>>, "void", "this")

\* operator=(graph&& other) with this = &other
MoveAssignSelf ==
    /\ PairCallable
    /\ UNCHANGED <<g_, second>>
    /\ PairReturned("move_assign_self", <<>>, "void", "this")

\* lhs == rhs, the two objects in either order
Equals(lhs, ub) ==
    /\ PairCallable
    /\ UNCHANGED <<g_, second>>
    /\ PairReturned("operator==", <<lhs>>,
                    IF lhs = "this" THEN graph_eq(g_, other, ub) ELSE graph_eq(other, g_, ub),
                    lhs)

\* cursor = other.find(src, dst, weight), kept when it is not other.end()
TakeCursor(src, dst, weight) ==
    /\ PairCallable
    /\ find(other, src, dst, weight) # end(other)
    /\ cursor' = iterator_of(find(other, src, dst, weight), "other", "other")
    /\ UNCHANGED <<g_, other, aliased>>
    /\ PairReturned("find", <<src, dst, weight>>, "cursor", "other")

\* ++cursor; after undefined behaviour the cursor is not followed further
Advance(ub) ==
    /\ PairCallable
    /\ cursor # nullopt
    /\ cursor' = IF cursor_incr([this |-> g_, other |-> other], cursor, ub).ret = "cursor"
                 THEN [cursor EXCEPT !.it = cursor_incr([this |-> g_, other |-> other], cursor, ub).it]
                 ELSE nullopt
    /\ UNCHANGED <<g_, other, aliased>>
    /\ PairReturned("++", <<cursor>>, cursor_incr([this |-> g_, other |-> other], cursor, ub).ret, "other")

\* the iterators a value-initialized one is compared with
Comparands(g) ==
    {value_initialized, iterator_of(begin(g), "this", "this"), iterator_of(end(g), "this", "this")}

\* a == b where a or b is iterator()
CompareValueInitialized(a, b, ub) ==
    /\ PairCallable
    /\ value_initialized \in {a, b}
    /\ UNCHANGED <<g_, second>>
    /\ PairReturned("iterator==", <<a, b>>,
                    iterator_equals([this |-> g_, other |-> other], a, b, ub), "this")

PairNext ==
    \/ Return
    \/ \E a \in Comparands(g_), b \in Comparands(g_), ub \in Undefined :
          CompareValueInitialized(a, b, ub)
    \/ \E m \in modifiers(g_) : MutateThis(m)
    \/ \E m \in modifiers(other) : MutateOther(m)
    \/ CopyConstruct
    \/ CopyAssign
    \/ MoveConstruct
    \/ MoveAssign
    \/ MoveAssignSelf
    \/ \E lhs \in {"this", "other"}, ub \in Undefined : Equals(lhs, ub)
    \/ \E src \in PairNodes, dst \in PairNodes, weight \in PairOptWeights : TakeCursor(src, dst, weight)
    \/ \E ub \in Undefined : Advance(ub)

PairSpec == PairInit /\ [][PairNext]_vars

\* the same nodes and the same (source, destination, optional weight) edges
SameContent(g, o) ==
    /\ DOMAIN g = DOMAIN o
    /\ {Value(e) : e \in Stored(g)} = {Value(e) : e \in Stored(o)}

\* C13: lhs == rhs is true exactly when the two graphs have the same nodes
\* and the same (source, destination, optional weight) edges, and false
\* otherwise, in either order of the operands, also when the edges of one
\* are a proper prefix of the edges of the other.
C13_EqualIffSameContent ==
    call.op = "operator=="
    => call.ret = (IF SameContent(g_, other) THEN "true" ELSE "false")

\* C16: after copy construction or copy assignment no edge payload is
\* pointed to by both the copy and the original.
C16_CopyOwnsFreshPayloads ==
    call.op \in {"copy_construct", "copy_assign"} => aliased = {}

\* C17: after copy construction or copy assignment the copy equals the
\* source, map by map and by operator==, and the source is as it was; every
\* modifier call on one of the two objects leaves the nodes and the edge
\* sets of the other as they were, so does any sequence of such calls.
C17_CopyIndependent ==
    /\ call.op \in {"copy_construct", "copy_assign"}
          => /\ g_ = call.other_before
             /\ other = call.other_before
             /\ \A ub \in Undefined :
                   graph_eq(g_, other, ub) = "true" /\ graph_eq(other, g_, ub) = "true"
    /\ (call.op \in ModifierOps /\ call.on = "this") => other = call.other_before
    /\ (call.op \in ModifierOps /\ call.on = "other") => g_ = call.before

\* replace_node has renamed, in one of the objects, a node whose edges'
\* payloads are pointed to by both objects
C17_RenamedWhileAliased ==
    /\ call.op = "replace_node"
    /\ call.ret = "true"
    /\ \E e \in call.aliased_before : e.src_ = call.args[1]
    /\ g_ # other

\* C18: after move construction or move assignment from another object the
\* destination holds the nodes and edge sets the source held before, the
\* source has no node and its begin() is its end(); move assignment of an
\* object to itself leaves it as it was.
C18_MoveTransfers ==
    /\ call.op \in {"move_construct", "move_assign"}
          => /\ g_ = call.other_before
             /\ DOMAIN other = {}
             /\ iterator_eq(other, begin(other), end(other))
    /\ call.op = "move_assign_self" => g_ = call.before /\ other = call.other_before

\* a graph with an edge has been moved into an object that held other nodes
C18_MovedOverOtherContent ==
    /\ call.op = "move_assign"
    /\ Stored(call.other_before) # {}
    /\ DOMAIN call.before # {}
    /\ call.before # call.other_before

\* cursor stepped by ++ arrives at the end() of *this
RECURSIVE ReachesEnd(_, _, _, _)
ReachesEnd(gs, c, fuel, ub) ==
    IF cursor_eq(gs, c, iterator_of(end(gs.this), "this", "this")) THEN TRUE
    ELSE IF fuel = 0 \/ cursor_incr(gs, c, ub).ret # "cursor" THEN FALSE
    ELSE ReachesEnd(gs, [c EXCEPT !.it = cursor_incr(gs, c, ub).it], fuel - 1, ub)

\* C19: a cursor taken from a graph before the graph is moved from is, after
\* the move, equal to the cursor the destination's find gives for the same
\* edge, and stepping it with ++ arrives at the destination's end().
C19_CursorSurvivesMove ==
    (call.op \in {"move_construct", "move_assign"} /\ cursor # nullopt)
    => LET gs == [this |-> g_, other |-> other]
           e == deref(g_, cursor.it)
       IN  /\ cursor_eq(gs, cursor, iterator_of(find(g_, e.from, e.to, e.weight), "this", "this"))
           /\ \A ub \in Undefined : ReachesEnd(gs, cursor, OutCount(g_) + 1, ub)

----------------------------------------------------------------------------
\* C21: -- on a cursor at the logical beginning, that is one equal to begin()
\* (end() when no node has an outgoing edge), raises an error and gives no
\* cursor, also when the first nodes of the map have no outgoing edges.
C21_DecrementAtBeginningFails ==
    (call.op = "decrement" /\ iterator_eq(call.before, call.args[1], begin(call.before)))
    => call.ret = "throw"

\* C22: two value-initialized cursors compare equal, a value-initialized
\* cursor compares unequal to begin() and to end() of a graph, and the
\* comparison is defined in each of these cases.
C22_ValueInitializedComparison ==
    call.op = "iterator=="
    => call.ret = (IF call.args[1] = value_initialized /\ call.args[2] = value_initialized
                   THEN "true" ELSE "false")

\* C23: insert_node(v) returns true and adds v, leaving every other node's
\* record alone, when v is not a node; it returns false and leaves the nodes
\* and all edge sets as they were when v is a node.  So a second
\* insert_node(v) right after the first returns false, and nodes() is
\* strictly ascending and lists exactly the nodes.
C23_InsertNodeIdempotent ==
    /\ call.op = "insert_node"
          => IF is_node(call.before, call.args[1])
             THEN call.ret = "false" /\ g_ = call.before
             ELSE /\ call.ret = "true"
                  /\ DOMAIN g_ = DOMAIN call.before \cup {call.args[1]}
                  /\ \A n \in DOMAIN call.before : g_[n] = call.before[n]
    /\ \A v \in Nodes :
          /\ insert_node(g_, v).ret = (IF is_node(g_, v) THEN "false" ELSE "true")
          /\ insert_node(insert_node(g_, v).g, v) = [g |-> insert_node(g_, v).g, ret |-> "false"]
    /\ \A i \in 1..Len(nodes(g_)), j \in 1..Len(nodes(g_)) : i < j => nodes(g_)[i] < nodes(g_)[j]
    /\ Range(nodes(g_)) = DOMAIN g_

\* insert_node has returned false for a node that has edges
C23_RefusedForNodeWithEdges ==
    /\ call.op = "insert_node"
    /\ call.ret = "false"
    /\ \E e \in Stored(g_) : e.src_ = call.args[1] /\ is_node(g_, e.dst_)
    /\ g_[call.args[1]].first # <<>>

\* C24: replace_node(old, new) with old a node and new a node, new = old
\* included, returns false and leaves the nodes and all edge sets as they
\* were; merge_replace_node(old, old) with old a node returns and leaves
\* them as they were too.
C24_ReplaceOntoExistingIsNoOp ==
    /\ (/\ call.op = "replace_node"
        /\ is_node(call.before, call.args[1])
        /\ is_node(call.before, call.args[2]))
          => call.ret = "false" /\ g_ = call.before
    /\ (/\ call.op = "merge_replace_node"
        /\ call.args[1] = call.args[2]
        /\ is_node(call.before, call.args[1]))
          => call.ret = "void" /\ g_ = call.before

\* merge_replace_node(old, old) has been called on a node with an edge to
\* another node
C24_MergedOntoItself ==
    /\ call.op = "merge_replace_node"
    /\ call.args[1] = call.args[2]
    /\ is_node(call.before, call.args[1])
    /\ \E e \in Stored(call.before) :
          e.src_ = call.args[1] /\ e.dst_ # e.src_ /\ is_node(call.before, e.dst_)

\* line a of a block comes before line b in the canonical edge order: by
\* destination, then unweighted before weighted, then by weight
PrintedBefore(a, b) ==
    \/ a[3] < b[3]
    \/ a[3] = b[3] /\ a[5] = "U" /\ b[5] = "W"
    \/ a[3] = b[3] /\ a[5] = "W" /\ b[5] = "W" /\ a[7] < b[7]

\* C25: the dump has one block per node, in ascending node order; a block
\* lists the outgoing edges of its node, one line per edge, in the canonical
\* order, and every line names the block's node as source; a node without
\* outgoing edges has a block without lines, an empty graph has no block.
C25_DumpListsNodesAndEdges ==
    call.op = "operator<<"
    => /\ Len(call.os) = Cardinality(DOMAIN g_)
       /\ {call.os[k].open[1] : k \in 1..Len(call.os)} = DOMAIN g_
       /\ \A k \in 1..Len(call.os), m \in 1..Len(call.os) :
             k < m => call.os[k].open[1] < call.os[m].open[1]
       /\ \A k \in 1..Len(call.os) :
             LET n == call.os[k].open[1]
                 lines == call.os[k].lines
             IN  /\ Len(lines) = Len(g_[n].first)
                 /\ Range(lines) = {print_edge(e) : e \in OutSet(g_, n)}
                 /\ \A i \in 1..Len(lines) : lines[i][1] = n
                 /\ \A i \in 1..Len(lines), j \in 1..Len(lines) :
                       i < j => PrintedBefore(lines[i], lines[j])
                 /\ g_[n].first = <<>> => lines = <<>>
       /\ g_ = call.before

\* a graph has been dumped in which a node without outgoing edges comes
\* before a node with an unweighted and a weighted edge
C25_DumpedEmptyAndFullBlocks ==
    /\ call.op = "operator<<"
    /\ \E k \in 1..Len(call.os), m \in 1..Len(call.os) :
          /\ k < m
          /\ call.os[k].lines = <<>>
          /\ Len(call.os[m].lines) = 2
          /\ call.os[m].lines[1][5] = "U"
          /\ call.os[m].lines[2][5] = "W"

\* every edge insert_edge can make
AllEdges == {create_edge_ptr(src, dst, w) : src \in Nodes, dst \in Nodes, w \in OptWeights}

\* source, destination and weightedness match and, if weighted, the weight
SameEdgeContent(a, b) ==
    /\ get_nodes(a) = get_nodes(b)
    /\ is_weighted(a) = is_weighted(b)
    /\ is_weighted(a) => get_weight(a) = get_weight(b)

\* C26: an edge held by the graph and any edge, in either order, are equal
\* exactly when source, destination and weightedness match and, both being
\* weighted, the weights match (every edge is held in some state); an
\* unweighted edge equals no weighted edge on the same endpoints, the one
\* whose weight is the value an unweighted edge stores included, and equals
\* every unweighted edge on the same endpoints.
C26_EdgeEquality ==
    /\ \A a \in Stored(g_), b \in AllEdges :
          /\ edge_eq(a, b) <=> SameEdgeContent(a, b)
          /\ edge_eq(b, a) <=> SameEdgeContent(a, b)
    /\ \A src \in Nodes, dst \in Nodes :
          /\ edge_eq(unweighted_edge(src, dst), unweighted_edge(src, dst))
          /\ \A w \in Weights \cup {unweighted_edge(src, dst).weight_} :
                /\ ~edge_eq(unweighted_edge(src, dst), weighted_edge(src, dst, w))
                /\ ~edge_eq(weighted_edge(src, dst, w), unweighted_edge(src, dst))

\* insert_edge has added a weighted edge whose weight is the value the
\* unweighted edge already stored between the same nodes holds
C26_PlaceholderWeightBesideUnweighted ==
    /\ call.op = "insert_edge"
    /\ call.ret = "true"
    /\ call.args[3] = <<unweighted_edge(call.args[1], call.args[2]).weight_>>
    /\ unweighted_edge(call.args[1], call.args[2]) \in OutSet(call.before, call.args[1])
    /\ Len(g_[call.args[1]].first) = Len(call.before[call.args[1]].first) + 1

\* edge a comes before edge b by content: source, then destination, then
\* unweighted before weighted, then weight
ContentBefore(a, b) ==
    \/ a.src_ < b.src_
    \/ a.src_ = b.src_ /\ a.dst_ < b.dst_
    \/ a.src_ = b.src_ /\ a.dst_ = b.dst_ /\ ~is_weighted(a) /\ is_weighted(b)
    \/ /\ a.src_ = b.src_ /\ a.dst_ = b.dst_
       /\ is_weighted(a) /\ is_weighted(b) /\ a.weight_ < b.weight_

\* two allocations
Addresses == 1..2

\* no set of g holds two content-equal edges
NoContentEqualPair(g) ==
    \A n \in DOMAIN g :
        /\ \A i \in 1..Len(g[n].first), j \in 1..Len(g[n].first) :
              i # j => ~edge_eq(g[n].first[i], g[n].first[j])
        /\ \A i \in 1..Len(g[n].second), j \in 1..Len(g[n].second) :
              i # j => ~edge_eq(g[n].second[i], g[n].second[j])

\* C27: the order of the edge sets looks at content only: two content-equal
\* edges in different allocations are equivalent under it, neither before
\* the other, and so no set holds two content-equal edges.
C27_OrderIgnoresAllocation ==
    /\ \A e \in Stored(g_), x \in Addresses, y \in Addresses :
          ~EdgePtrComparator(ptr(e, x), ptr(e, y))
    /\ NoContentEqualPair(g_)

\* C27, amended: the order of the edge sets is by content (source,
\* destination, unweighted before weighted, weight) for edges of different
\* content, whatever their allocations, and by allocation address for two
\* content-equal edges in different allocations (an allocation is not before
\* itself); a set still never holds
\* two content-equal edges, and each set is strictly ordered by content.
C27_OrderByContentThenAddress ==
    /\ \A a \in Stored(g_), b \in AllEdges, x \in Addresses, y \in Addresses :
          x # y =>
             (EdgePtrComparator(ptr(a, x), ptr(b, y))
                <=> IF SameEdgeContent(a, b) THEN x < y ELSE ContentBefore(a, b))
    /\ \A a \in Stored(g_), x \in Addresses :
          ~EdgePtrComparator(ptr(a, x), ptr(a, x))
    /\ NoContentEqualPair(g_)
    /\ \A n \in DOMAIN g_ :
          /\ \A i \in 1..Len(g_[n].first), j \in 1..Len(g_[n].first) :
                i < j => ContentBefore(g_[n].first[i], g_[n].first[j])
          /\ \A i \in 1..Len(g_[n].second), j \in 1..Len(g_[n].second) :
                i < j => ContentBefore(g_[n].second[i], g_[n].second[j])

\* insert_edge has been offered, in a fresh allocation, an edge whose content
\* the outgoing set of src and the incoming set of dst already hold, and has
\* refused it
C27_ContentEqualEdgeRefused ==
    /\ call.op = "insert_edge"
    /\ call.ret = "false"
    /\ g_ = call.before
    /\ \E i \in 1..Len(g_[call.args[1]].first) :
          edge_eq(g_[call.args[1]].first[i],
                  create_edge_ptr(call.args[1], call.args[2], call.args[3]))
    /\ \E i \in 1..Len(g_[call.args[2]].second) :
          edge_eq(g_[call.args[2]].second[i],
                  create_edge_ptr(call.args[1], call.args[2], call.args[3]))

\* C28: immediately after insert_node(v) has returned true no stored edge
\* has v as source or destination: is_connected(x, v) and is_connected(v, x)
\* are false for every node x, and insert_edge(x, v, w) and
\* insert_edge(v, x, w) return true for every node x and weight w.
C28_InsertedNodeIsIsolated ==
    (call.op = "insert_node" /\ call.ret = "true")
    => /\ \A e \in Stored(g_) : e.src_ # call.args[1] /\ e.dst_ # call.args[1]
       /\ \A x \in DOMAIN g_ :
             /\ is_connected(g_, x, call.args[1]) = "false"
             /\ is_connected(g_, call.args[1], x) = "false"
             /\ \A w \in OptWeights :
                   /\ insert_edge(g_, x, call.args[1], w).ret = "true"
                   /\ insert_edge(g_, call.args[1], x, w).ret = "true"

\* C29: every edge in the outgoing set stored under node n has n as its
\* source and every edge in the incoming set stored under n has n as its
\* destination, so the from field a cursor yields equals the key of the node
\* record the cursor is positioned in.
C29_EdgesFiledUnderTheirEndpoints ==
    /\ \A n \in DOMAIN g_ :
          /\ \A i \in 1..Len(g_[n].first) : get_nodes(g_[n].first[i])[1] = n
          /\ \A i \in 1..Len(g_[n].second) : get_nodes(g_[n].second[i])[2] = n
    /\ \A it \in Cursors(g_) :
          it # end(g_) => deref(g_, it).from = it.current_node_

\* replace_node or merge_replace_node has moved a node that had outgoing and
\* incoming edges, and the node it moved them to holds outgoing and incoming
\* edges
C29_MovedEdgesRefiled ==
    /\ call.op \in {"replace_node", "merge_replace_node"}
    /\ call.ret \in {"true", "void"}
    /\ call.args[1] # call.args[2]
    /\ call.before[call.args[1]].first # <<>>
    /\ call.before[call.args[1]].second # <<>>
    /\ g_[call.args[2]].first # <<>>
    /\ g_[call.args[2]].second # <<>>
    /\ \E it \in Cursors(g_) : it.current_node_ = call.args[2]

\* C30: evaluating g1 == g2 for two graphs with the same node set never
\* dereferences or advances a cursor that is at the end of its own graph: the
\* comparison loop stops as soon as either cursor reaches its graph's end(),
\* whichever graph has more edges, and the comparison returns a bool.
C30_ComparisonStopsAtEitherEnd ==
    (call.op = "operator==" /\ DOMAIN g_ = DOMAIN other)
    => call.ret \in {"true", "false"}

====
